---- MODULE Spec2Model ----
(***************************************************************************)
(* A model of bot.py, the chat-export participant bot.                     *)
(*                                                                         *)
(* Python strings are sequences of Unicode code points (naturals), so that *)
(* lower(), strip(), split(), substring tests, the mention pattern and     *)
(* splitlines() are computed on characters.  A dict is a sequence of       *)
(* <<key, value>> pairs in insertion order, as in CPython.  None is the    *)
(* one-element tuple None below, which is no string of the model (no       *)
(* string of the model holds the code point 0).                            *)
(*                                                                         *)
(* The handlers run one at a time: the Application is built without        *)
(* concurrent_updates (line 350), so an update is handled to completion    *)
(* before the next one is taken.  Calls of the Telegram API (reply_text,   *)
(* send_action, reply_document) are taken to return; what they send is     *)
(* recorded in the variable out.                                           *)
(***************************************************************************)
EXTENDS Integers, Sequences, FiniteSets, TLC

VARIABLES
    user_data,  \* context.user_data of the one session: a dict, <<>> or <<"files", list>>
    accepted,   \* history: the files accepted since the buffer was last cleared
    stale,      \* history: the files that were in the buffer when it was cleared
    out,        \* what the last handler sent, and the locals of done at its return
    input,      \* the argument of the function under test
    result      \* its return value

vars == <<user_data, accepted, stale, out, input, result>>

None == <<0>>

----------------------------------------------------------------------------
(* Constants of bot.py *)

MAX_FILES == 10
LIST_THRESHOLD == 50
TELEGRAM_MSG_LIMIT == 4096
CHUNK_MARGIN == 50
MENTION_MIN == 5
MENTION_MAX == 32

----------------------------------------------------------------------------
(* Python string primitives *)

Min(a, b) == IF a <= b THEN a ELSE b

\* the sequence f as a tuple, each of its elements evaluated once
AsSeq(f) == SubSeq(f, 1, Len(f))

\* str.lower() on one code point: A-Z, the Cyrillic capitals U+0410..U+042F, U+0401
LowerChar(c) ==
    IF (c >= 65 /\ c <= 90) \/ (c >= 1040 /\ c <= 1071) THEN c + 32
    ELSE IF c = 1025 THEN 1105
    ELSE c

Lower(s) == AsSeq([i \in 1..Len(s) |-> LowerChar(s[i])])

\* str.isspace() of one code point
IsSpace(c) == c \in {9, 10, 11, 12, 13, 28, 29, 30, 31, 32, 133, 160}

\* \w of the re module on str: letters, digits and the underscore
IsWord(c) ==
    \/ c >= 48 /\ c <= 57
    \/ c >= 65 /\ c <= 90
    \/ c >= 97 /\ c <= 122
    \/ c = 95
    \/ c >= 1040 /\ c <= 1103
    \/ c \in {1025, 1105}

\* [A-Za-z0-9_]
IsHandleChar(c) ==
    \/ c >= 48 /\ c <= 57
    \/ c >= 65 /\ c <= 90
    \/ c >= 97 /\ c <= 122
    \/ c = 95

\* the least and the greatest member of a set of numbers that is not empty
MinOf(S) == CHOOSE i \in S : \A j \in S : i <= j
MaxOf(S) == CHOOSE i \in S : \A j \in S : i >= j

\* s from the first to the last of the positions keep
Between(s, keep) == IF keep = {} THEN <<>> ELSE SubSeq(s, MinOf(keep), MaxOf(keep))

\* str.strip()
Strip(s) == Between(s, {i \in 1..Len(s) : ~IsSpace(s[i])})

\* sub in s
Contains(sub, s) ==
    \E i \in 0..(Len(s) - Len(sub)) : SubSeq(s, i + 1, i + Len(sub)) = sub

\* s.endswith(suffix)
EndsWith(s, suffix) ==
    /\ Len(s) >= Len(suffix)
    /\ SubSeq(s, Len(s) - Len(suffix) + 1, Len(s)) = suffix

\* the least member of S, or d when S is empty
MinOfOr(S, d) == IF S = {} THEN d ELSE MinOf(S)

\* the first whitespace of s at or after position i, Len(s) + 1 when there is none
WordEnd(s, i) == MinOfOr({j \in i..Len(s) : IsSpace(s[j])}, Len(s) + 1)

RECURSIVE SplitFrom(_, _)
\* str.split() from position i on: the maximal runs of non-space characters
SplitFrom(s, i) ==
    IF i > Len(s) THEN <<>>
    ELSE IF IsSpace(s[i]) THEN SplitFrom(s, i + 1)
    ELSE <<SubSeq(s, i, WordEnd(s, i) - 1)>> \o SplitFrom(s, WordEnd(s, i))

Split(s) == SplitFrom(s, 1)

RECURSIVE Join(_, _)
\* sep.join(parts), put together by halves
Join(sep, parts) ==
    IF parts = <<>> THEN <<>>
    ELSE IF Len(parts) = 1 THEN parts[1]
    ELSE LET mid == Len(parts) \div 2
         IN  Join(sep, SubSeq(parts, 1, mid)) \o sep
             \o Join(sep, SubSeq(parts, mid + 1, Len(parts)))

\* the line boundaries of str.splitlines()
IsLineBreak(c) == c \in {10, 11, 12, 13, 28, 29, 30, 133, 8232, 8233}

\* the positions at which a line of text ends: a line boundary (\r\n counts
\* once, at the \n), and the last character of an unterminated last line
IsLineEnd(text, i) ==
    \/ /\ IsLineBreak(text[i])
       /\ ~(text[i] = 13 /\ i < Len(text) /\ text[i + 1] = 10)
    \/ i = Len(text)

\* the positions at which a line of text ends, in order
LineEndSeq(text) ==
    LET IsEnd(i) == IsLineEnd(text, i)
    IN  SelectSeq(AsSeq([i \in 1..Len(text) |-> i]), IsEnd)

\* the pieces of text that end at the positions ends
CutAt(text, ends) ==
    AsSeq([k \in 1..Len(ends) |->
              SubSeq(text, IF k = 1 THEN 1 ELSE ends[k - 1] + 1, ends[k])])

\* text.splitlines(True): the lines with their line endings kept
SplitLinesKeep(text) == CutAt(text, LineEndSeq(text))

----------------------------------------------------------------------------
(* chunk_text, lines 183-193 *)

RECURSIVE ChunkLoop(_, _, _, _, _)
\* lines 186-190: for line in lines, from lines[i] on, with the locals chunks
\* and cur
ChunkLoop(lines, i, chunks, cur, limit) ==
    IF i > Len(lines) THEN [chunks |-> chunks, cur |-> cur]
    ELSE IF Len(cur) + Len(lines[i]) > limit - CHUNK_MARGIN
         THEN ChunkLoop(lines, i + 1, Append(chunks, cur), lines[i], limit)
         ELSE ChunkLoop(lines, i + 1, chunks, cur \o lines[i], limit)

\* ChunkEnd without lines 191-192
ChunkEndDropped(r) == r.chunks

\* lines 191-193: after the loop, with its locals in r
ChunkEnd(r) == IF r.cur # <<>> THEN Append(r.chunks, r.cur) ELSE r.chunks

chunk_text(text, limit) ==
    ChunkEnd(ChunkLoop(SplitLinesKeep(text), 1, <<>>, <<>>, limit))

----------------------------------------------------------------------------
(* The inputs of chunk_text *)

MaxTextLen == 5
TextChars == {97, 10, 13}

RECURSIVE TextsOfLen(_)
TextsOfLen(n) ==
    IF n = 0 THEN {<<>>}
    ELSE {Append(t, c) : t \in TextsOfLen(n - 1), c \in TextChars}

ShortTexts == UNION {TextsOfLen(n) : n \in 0..MaxTextLen}

\* n times the letter a
Letters(n) == AsSeq([i \in 1..n |-> 97])

\* texts about the real limit: a line of just over, and of exactly, 4046 characters
LongTexts ==
    LET room == TELEGRAM_MSG_LIMIT - CHUNK_MARGIN
    IN  { Letters(room + 1),
          Letters(room),
          Letters(room - 1) \o <<10>>,
          <<97, 10>> \o Letters(room + 1) \o <<10, 97>>,
          Letters(room) \o <<10>> \o Letters(3) }

ChunkInputs ==
    {[text |-> t, limit |-> CHUNK_MARGIN + m] : t \in ShortTexts, m \in {2, 3}}
    \cup {[text |-> t, limit |-> TELEGRAM_MSG_LIMIT] : t \in LongTexts}

NoResult == [done |-> FALSE, value |-> <<>>]

InitChunk ==
    /\ input \in ChunkInputs
    /\ result = NoResult
    /\ user_data = <<>>
    /\ accepted = <<>>
    /\ stale = {}
    /\ out = <<>>

CallChunkText ==
    /\ ~result.done
    /\ result' = [done |-> TRUE, value |-> chunk_text(input.text, input.limit)]
    /\ UNCHANGED <<user_data, accepted, stale, out, input>>

NextChunk == CallChunkText

SpecChunk == InitChunk /\ [][NextChunk]_vars

RECURSIVE Flatten(_)
\* the strings parts, concatenated in order
Flatten(parts) ==
    IF parts = <<>> THEN <<>> ELSE parts[1] \o Flatten(Tail(parts))

\* the positions at which a line of text ends
LineEnds(text) == {i \in 1..Len(text) : IsLineEnd(text, i)}

\* C8: the chunks of chunk_text, concatenated in order, are the input text, and
\* every chunk ends where a line of the input ends, so that no line, however
\* long, lies in two chunks.
C8_ChunksReassembleAtLineEnds ==
    result.done =>
        LET chunks == result.value
        IN  /\ Flatten(chunks) = input.text
            /\ \A k \in 1..Len(chunks) :
                   Len(Flatten(SubSeq(chunks, 1, k))) \in LineEnds(input.text) \cup {0}

\* a text of several chunks, one of them a single line longer than the room
C8_Witness ==
    /\ result.done
    /\ Len(result.value) >= 2
    /\ \E k \in 1..Len(result.value) :
           Len(result.value[k]) > input.limit - CHUNK_MARGIN

\* C7: every chunk of chunk_text is non-empty and has at most limit - 50
\* characters.
C7_ChunksNonEmptyWithinLimit ==
    result.done =>
        \A k \in 1..Len(result.value) :
            /\ result.value[k] # <<>>
            /\ Len(result.value[k]) <= input.limit - CHUNK_MARGIN

----------------------------------------------------------------------------
(* dict: a sequence of <<key, value>> pairs in insertion order *)

DictKeys(d) == {d[i][1] : i \in 1..Len(d)}

DictHas(d, k) == \E i \in 1..Len(d) : d[i][1] = k

\* d[k], for a key of d
DictGet(d, k) == d[CHOOSE i \in 1..Len(d) : d[i][1] = k][2]

\* d[k] = v: a key of d keeps its place, a new key goes last
DictSet(d, k, v) ==
    IF DictHas(d, k)
    THEN [d EXCEPT ![CHOOSE i \in 1..Len(d) : d[i][1] = k] = <<k, v>>]
    ELSE Append(d, <<k, v>>)

\* DictUpdate keeping the value a key has (setdefault for each item)
DictUpdateKeepFirst(d, other) ==
    LET IsNew(item) == ~DictHas(d, item[1])
    IN  d \o SelectSeq(other, IsNew)

\* d.update(other): d[k] = v for each item of the dict other, in order; the keys
\* of d keep their places, the new keys follow in the order of other
DictUpdate(d, other) ==
    LET IsNew(item) == ~DictHas(d, item[1])
    IN  AsSeq([i \in 1..Len(d) |->
                  IF DictHas(other, d[i][1]) THEN <<d[i][1], DictGet(other, d[i][1])>>
                  ELSE d[i]])
        \o SelectSeq(other, IsNew)

\* list(d.values())
DictValues(d) == AsSeq([i \in 1..Len(d) |-> d[i][2]])

----------------------------------------------------------------------------
(* The helpers of the extractors, lines 37-73.  The JSON scalars of the   *)
(* model are None and strings, for which str(x) is x.                      *)

\* the truth value of None or a string
Truthy(x) == x # None /\ x # <<>>

\* a or b
Or(a, b) == IF Truthy(a) THEN a ELSE b

_safe_str(x) == IF x = None THEN <<>> ELSE Strip(x)

\* lines 45-50, on parts, the split() of the stripped name (empty just when
\* the stripped name is): the pair (first, last) as a two-element sequence
FirstAndRest(parts) ==
    IF parts = <<>> THEN << <<>>, <<>> >>
    ELSE IF Len(parts) = 1 THEN << parts[1], <<>> >>
    ELSE << parts[1], Join(<<32>>, Tail(parts)) >>

_split_name(full_name) == FirstAndRest(Split(_safe_str(full_name)))

\* "deleted account", and the two Russian stems "udal" and "akkaunt"
STR_DELETED_ACCOUNT ==
    <<100, 101, 108, 101, 116, 101, 100, 32, 97, 99, 99, 111, 117, 110, 116>>
STR_UDAL == <<1091, 1076, 1072, 1083>>
STR_AKKAUNT == <<1072, 1082, 1082, 1072, 1091, 1085, 1090>>
STR_DELETED == <<100, 101, 108, 101, 116, 101, 100>>

\* lines 55-61, on n; user_id is a parameter the body never reads
LooksDeleted(n) ==
    \/ Contains(STR_DELETED_ACCOUNT, n)
    \/ Contains(STR_UDAL, n) /\ Contains(STR_AKKAUNT, n)
    \/ n = STR_DELETED

_is_deleted_account(name, user_id) == LooksDeleted(Lower(_safe_str(name)))

\* _make_user_key without lower() on the username
_make_user_key_cased(user_id, username, first_name, last_name) ==
    IF user_id # <<>> THEN <<105, 100, 58>> \o user_id
    ELSE IF username # <<>> THEN <<117, 58>> \o username
    ELSE <<110, 58>> \o Lower(first_name) \o <<124>> \o Lower(last_name)

\* "id:", "u:", "n:" and "|"
_make_user_key(user_id, username, first_name, last_name) ==
    IF user_id # <<>> THEN <<105, 100, 58>> \o user_id
    ELSE IF username # <<>> THEN <<117, 58>> \o Lower(username)
    ELSE <<110, 58>> \o Lower(first_name) \o <<124>> \o Lower(last_name)

\* the length of the run of [A-Za-z0-9_] that starts at position i of text
HandleRun(text, i) ==
    MinOfOr({j \in i..Len(text) : ~IsHandleChar(text[j])}, Len(text) + 1) - i

\* MENTION_RE.finditer: an @ that no word character precedes, then 5 to 32 of
\* [A-Za-z0-9_], as many as there are (a match holds no @, so matches never overlap)
Mentions(t) ==
    {Lower(SubSeq(t, i + 1, i + Min(HandleRun(t, i + 1), MENTION_MAX))) :
        i \in {j \in 1..Len(t) :
                  /\ t[j] = 64
                  /\ (j = 1 \/ ~IsWord(t[j - 1]))
                  /\ HandleRun(t, j + 1) >= MENTION_MIN}}

\* text or ""
extract_mentions_from_text(text) == Mentions(Or(text, <<>>))

----------------------------------------------------------------------------
(* extract_from_json, lines 76-127.                                        *)
(*                                                                         *)
(* A parsed document is [isdict, export_date, haslist, messages]: haslist  *)
(* says that "messages" is there and is a list.  A message is a record     *)
(* of its fields, each None or a string, with isdict (FALSE: the list item *)
(* is no object) and text, which is [kind, s, items]: kind "none", "str"   *)
(* (s), "list" (items, each [kind, s] of kind "str", "dict" or "other") or *)
(* "other".                                                                *)

\* datetime.now(timezone.utc).isoformat(): "<now>"
NOW == <<60, 110, 111, 119, 62>>

\* "N/A"
STR_NA == <<78, 47, 65>>

\* lines 95-98: what one item of a list text adds to joined
Segment(item) ==
    IF item.kind = "str" THEN item.s
    ELSE IF item.kind = "dict" THEN _safe_str(item.s)
    ELSE <<>>

RECURSIVE JoinedText(_)
\* lines 93-98: the segments of a list text, concatenated
JoinedText(items) ==
    IF items = <<>> THEN <<>>
    ELSE Segment(Head(items)) \o JoinedText(Tail(items))

\* lines 89-99: the mentions of one message
MessageMentions(m) ==
    IF m.text.kind = "str" THEN extract_mentions_from_text(m.text.s)
    ELSE IF m.text.kind = "list" THEN extract_mentions_from_text(JoinedText(m.text.items))
    ELSE {}

\* lines 107-110, on the locals of lines 101-105
SplitIfUnnamed(from_name, from_id, username, first_name, last_name) ==
    [from_name |-> from_name,
     from_id |-> from_id,
     username |-> username,
     first_name |-> IF first_name = <<>> /\ last_name = <<>> /\ from_name # <<>>
                    THEN Or(first_name, _split_name(from_name)[1])
                    ELSE first_name,
     last_name |-> IF first_name = <<>> /\ last_name = <<>> /\ from_name # <<>>
                   THEN Or(last_name, _split_name(from_name)[2])
                   ELSE last_name]

\* lines 101-110: the identity fields of one message, resolved
ResolvedFields(m) ==
    SplitIfUnnamed(_safe_str(Or(Or(Or(m.from, m.actor), m.sender), <<>>)),
                   _safe_str(Or(Or(Or(m.from_id, m.actor_id), m.sender_id), <<>>)),
                   _safe_str(Or(Or(m.username, m.from_username), <<>>)),
                   _safe_str(m.first_name),
                   _safe_str(m.last_name))

\* lines 119-125: a participant record
ParticipantRecord(export_date, username, first_name, last_name) ==
    [export_date |-> export_date,
     username |-> username,
     first_name |-> first_name,
     last_name |-> last_name,
     bio |-> STR_NA]

\* lines 112-125, on the resolved fields r of a message and its mentions
RecordAuthor(r, export_date, mentions) ==
    IF \/ /\ r.from_id = <<>> /\ r.username = <<>>
          /\ r.first_name = <<>> /\ r.last_name = <<>>
          /\ r.from_name = <<>>
       \/ _is_deleted_account(r.from_name, r.from_id)
    THEN [assigns |-> FALSE, key |-> <<>>, mentions |-> mentions]
    ELSE [assigns |-> TRUE,
          key |-> _make_user_key(r.from_id, r.username, r.first_name, r.last_name),
          value |-> ParticipantRecord(export_date, r.username, r.first_name, r.last_name),
          mentions |-> mentions]

\* lines 86-125: the body of the loop for one message m.  [assigns |-> FALSE]
\* when the body leaves participants alone (the continue of lines 86-87 and of
\* lines 112-115); otherwise the body does participants[key] = value.
\* mentions are the handles the body adds to the set mentions (lines 89-99).
ExtractMessage(m, export_date) ==
    IF ~m.isdict THEN [assigns |-> FALSE, key |-> <<>>, mentions |-> {}]
    ELSE RecordAuthor(ResolvedFields(m), export_date, MessageMentions(m))

\* the places in as of the assignments to a key not assigned before, in order
FirstAssignments(as) ==
    LET IsFirst(i) == \A j \in 1..(i - 1) : as[j].key # as[i].key
    IN  SelectSeq(AsSeq([i \in 1..Len(as) |-> i]), IsFirst)

\* the place in as of the last assignment to the key assigned at place i
LastAssignment(as, i) ==
    CHOOSE j \in i..Len(as) :
        /\ as[j].key = as[i].key
        /\ \A k \in (j + 1)..Len(as) : as[k].key # as[i].key

\* the keys assigned at the places firsts, each with the value last assigned to it
LastValues(as, firsts) ==
    AsSeq([p \in 1..Len(firsts) |->
              <<as[firsts[p]].key, as[LastAssignment(as, firsts[p])].value>>])

\* The dict left by the assignments d[a.key] = a.value, made in order on an
\* empty dict: a key stands where it was first assigned and holds the value it
\* was last assigned.
DictOfAssignments(as) == LastValues(as, FirstAssignments(as))

\* the assignments among the bodies of a loop
Assignments(bodies) ==
    LET Assigns(b) == b.assigns
    IN  SelectSeq(bodies, Assigns)

\* participants and mentions after the loop, from what its bodies did in order
LoopLocals(bodies) ==
    [participants |-> DictOfAssignments(Assignments(bodies)),
     mentions |-> UNION {bodies[i].mentions : i \in 1..Len(bodies)}]

\* lines 85-125: for m in messages, on the locals participants and mentions
ExtractLoop(messages, export_date) ==
    LoopLocals(AsSeq([i \in 1..Len(messages) |-> ExtractMessage(messages[i], export_date)]))

\* lines 83 and 127: the return of the triple, with the locals of the loop in r
Returned(export_date, r) ==
    [raised |-> FALSE, export_date |-> export_date,
     participants |-> r.participants, mentions |-> r.mentions]

\* [raised |-> TRUE] when data is no dict (data.get raises AttributeError)
extract_from_json(data) ==
    IF ~data.isdict
    THEN [raised |-> TRUE, export_date |-> <<>>, participants |-> <<>>, mentions |-> {}]
    ELSE Returned(Or(_safe_str(data.export_date), NOW),
                  IF ~data.haslist
                  THEN [participants |-> <<>>, mentions |-> {}]
                  ELSE ExtractLoop(data.messages, Or(_safe_str(data.export_date), NOW)))

----------------------------------------------------------------------------
(* extract_from_html, lines 130-158.  What BeautifulSoup finds in the      *)
(* markup is given as [from_names, texts]: the get_text() of the elements  *)
(* of class from_name and of class text, in document order.                *)

\* lines 144-152, on the pair (fn, ln)
RecordName(fnln, export_date) ==
    [assigns |-> TRUE,
     key |-> _make_user_key(<<>>, <<>>, fnln[1], fnln[2]),
     value |-> ParticipantRecord(export_date, <<>>, fnln[1], fnln[2])]

\* lines 139-152: the body of the loop for one element of class from_name
HtmlName(from_name, export_date) ==
    IF from_name = <<>> \/ _is_deleted_account(from_name, <<>>)
    THEN [assigns |-> FALSE, key |-> <<>>]
    ELSE RecordName(_split_name(from_name), export_date)

\* lines 138-152: for name_tag in soup.select(".from_name")
HtmlNamesLoop(names, export_date) ==
    DictOfAssignments(Assignments(
        AsSeq([i \in 1..Len(names) |-> HtmlName(_safe_str(names[i]), export_date)])))

extract_from_html(soup) ==
    [raised |-> FALSE,
     export_date |-> NOW,
     participants |-> HtmlNamesLoop(soup.from_names, NOW),
     mentions |-> UNION {extract_mentions_from_text(_safe_str(soup.texts[i])) :
                            i \in 1..Len(soup.texts)}]

----------------------------------------------------------------------------
(* The inputs of extract_from_json *)

TextNone == [kind |-> "none", s |-> <<>>, items |-> <<>>]
TextStr(s) == [kind |-> "str", s |-> s, items |-> <<>>]
TextList(items) == [kind |-> "list", s |-> <<>>, items |-> items]

\* a message with the fields from, from_id, username, first_name and text
Msg(from, from_id, username, first_name, text) ==
    [isdict |-> TRUE, from |-> from, actor |-> None, sender |-> None,
     from_id |-> from_id, actor_id |-> None, sender_id |-> None,
     username |-> username, from_username |-> None,
     first_name |-> first_name, last_name |-> None, text |-> text]

EmptyMsg == Msg(None, None, None, None, TextNone)

\* "Alice Smith", "user1", "Bob", "bob", "Dan", " Eve ", "Lee"
S_ALICE_SMITH == <<65, 108, 105, 99, 101, 32, 83, 109, 105, 116, 104>>
S_USER1 == <<117, 115, 101, 114, 49>>
S_BOB == <<66, 111, 98>>
S_bob == <<98, 111, 98>>
S_DAN == <<68, 97, 110>>
S_EVE_PADDED == <<32, 69, 118, 101, 32>>
S_LEE == <<76, 101, 101>>
\* "Deleted Account", "deleted", " DELETED ", "My deleted account 2",
\* the Russian "Akkaunt udalyon" and "Udalyonnyi akkaunt"
S_DELETED_ACCOUNT == <<68, 101, 108, 101, 116, 101, 100, 32, 65, 99, 99, 111, 117, 110, 116>>
S_DELETED_PADDED == <<32, 68, 69, 76, 69, 84, 69, 68, 32>>
S_AKKAUNT_UDALYON ==
    <<1040, 1082, 1082, 1072, 1091, 1085, 1090, 32, 1091, 1076, 1072, 1083, 1105, 1085>>
S_UDALYONNYI_AKKAUNT ==
    <<1059, 1076, 1072, 1083, 1105, 1085, 1085, 1099, 1081, 32,
      1072, 1082, 1082, 1072, 1091, 1085, 1090>>
\* "hello @bobby_1", "cc @Carol99 a@daveee @abc", "2024-01-01T00:00:00Z"
S_HELLO_BOBBY == <<104, 101, 108, 108, 111, 32, 64, 98, 111, 98, 98, 121, 95, 49>>
S_CC_CAROL ==
    <<99, 99, 32, 64, 67, 97, 114, 111, 108, 57, 57, 32, 97, 64, 100, 97, 118, 101, 101, 101,
      32, 64, 97, 98, 99>>
S_DATE == <<50, 48, 50, 52, 45, 48, 49, 45, 48, 49, 84, 48, 48, 58, 48, 48, 58, 48, 48, 90>>
\* "@" and 33 letters a: the pattern takes 32 of them
S_LONG_MENTION == <<64>> \o Letters(MENTION_MAX + 1)

DeletedNames ==
    {S_DELETED_ACCOUNT, STR_DELETED, S_DELETED_PADDED, S_AKKAUNT_UDALYON, S_UDALYONNYI_AKKAUNT}

\* messages of living authors: every combination of name, identifier and
\* username, and three with a first name of their own
PlainMessages ==
    {Msg(f, i, u, None, TextNone) :
        f \in {None, S_ALICE_SMITH}, i \in {None, S_USER1}, u \in {None, S_BOB, S_bob}}
    \cup { Msg(None, None, None, S_DAN, TextNone),
           Msg(S_ALICE_SMITH, None, None, S_DAN, TextNone),
           Msg(None, S_USER1, S_BOB, S_DAN, TextNone) }

\* messages under a deleted-account name, with a mention in the text
DeletedMessages ==
    {Msg(f, None, None, None, TextStr(S_HELLO_BOBBY)) : f \in DeletedNames}
    \cup {Msg(f, S_USER1, None, None, TextStr(S_HELLO_BOBBY)) :
              f \in {S_DELETED_ACCOUNT, S_DELETED_PADDED}}

\* the other shapes a message takes
OtherMessages ==
    { Msg(S_ALICE_SMITH, STR_DELETED, None, None, TextStr(S_CC_CAROL)),
      Msg(None, S_DELETED_ACCOUNT, None, None, TextStr(S_LONG_MENTION)),
      Msg(S_DELETED_ACCOUNT, None, S_BOB, S_DAN, TextNone),
      [EmptyMsg EXCEPT !.actor = S_EVE_PADDED,
                       !.text = TextList(<<[kind |-> "str", s |-> <<99, 64>>],
                                           [kind |-> "other", s |-> <<>>],
                                           [kind |-> "dict", s |-> S_HELLO_BOBBY]>>)],
      [EmptyMsg EXCEPT !.from = <<>>, !.sender = S_DELETED_ACCOUNT, !.sender_id = S_USER1],
      [EmptyMsg EXCEPT !.from_username = S_BOB, !.last_name = S_LEE],
      [EmptyMsg EXCEPT !.text = TextList(<<[kind |-> "dict", s |-> None]>>)],
      [EmptyMsg EXCEPT !.isdict = FALSE, !.from = S_ALICE_SMITH] }

Messages == PlainMessages \cup DeletedMessages \cup OtherMessages

MaxMsgs == 2

\* what a place of a list of messages holds when it holds none: no message of
\* Messages
NoMessage == [EmptyMsg EXCEPT !.isdict = FALSE, !.first_name = <<0, 0>>]

Doc(export_date, messages) ==
    [isdict |-> TRUE, export_date |-> export_date, haslist |-> TRUE, messages |-> messages]

\* a top-level JSON value that is no object, such as [] or null
NonDictDoc == [isdict |-> FALSE, export_date |-> None, haslist |-> FALSE, messages |-> <<>>]

\* an object without a list of messages
NoListDoc == [isdict |-> TRUE, export_date |-> S_DATE, haslist |-> FALSE, messages |-> <<>>]

\* documents without an export date, and the documents of no messages
OtherDocs == {Doc(None, <<m>>) : m \in OtherMessages} \cup {NoListDoc, NonDictDoc}

\* the documents of up to MaxMsgs messages, and the other documents
InitExtract ==
    /\ \/ \E l \in [1..MaxMsgs -> Messages \cup {NoMessage}] :
              input = Doc(S_DATE, SelectSeq(l, LAMBDA m : m # NoMessage))
       \/ input \in OtherDocs
    /\ result = NoResult
    /\ user_data = <<>>
    /\ accepted = <<>>
    /\ stale = {}
    /\ out = <<>>

CallExtractFromJson ==
    /\ ~result.done
    /\ result' = [done |-> TRUE, value |-> extract_from_json(input)]
    /\ UNCHANGED <<user_data, accepted, stale, out, input>>

NextExtract == CallExtractFromJson

SpecExtract == InitExtract /\ [][NextExtract]_vars

\* the deleted-account heuristic as the specification words it, of a trimmed string
MatchesDeletedHeuristic(s) ==
    LET n == Lower(s)
    IN  \/ n = STR_DELETED
        \/ Contains(STR_DELETED_ACCOUNT, n)
        \/ Contains(STR_UDAL, n) /\ Contains(STR_AKKAUNT, n)

\* the mentions in the texts of all the messages of a list
AllMessageMentions(messages) ==
    UNION {MessageMentions(messages[i]) : i \in {j \in 1..Len(messages) : messages[j].isdict}}

DeletedByNameOrId(m) ==
    /\ m.isdict
    /\ \/ MatchesDeletedHeuristic(ResolvedFields(m).from_name)
       \/ MatchesDeletedHeuristic(ResolvedFields(m).from_id)

NotDeletedByNameOrId(m) == ~DeletedByNameOrId(m)

\* C5: a message whose resolved display name or resolved identifier matches the
\* deleted-account heuristic neither creates nor updates a participant record,
\* and the mentions of its text are in the mention set all the same.
C5_DeletedNameOrIdNeverRecorded ==
    (result.done /\ input.isdict /\ input.haslist) =>
        /\ result.value.participants =
               extract_from_json(
                   [input EXCEPT !.messages = SelectSeq(@, NotDeletedByNameOrId)]).participants
        /\ result.value.mentions = AllMessageMentions(input.messages)

\* the messages of a document that are recorded: objects with some identity
\* and no deleted-account name
Recorded(m) ==
    /\ m.isdict
    /\ LET r == ResolvedFields(m)
       IN  /\ \/ r.from_id # <<>> \/ r.username # <<>> \/ r.first_name # <<>>
              \/ r.last_name # <<>> \/ r.from_name # <<>>
           /\ ~MatchesDeletedHeuristic(r.from_name)

KeyOfMessage(m) ==
    LET r == ResolvedFields(m)
    IN  _make_user_key(r.from_id, r.username, r.first_name, r.last_name)

\* the same non-empty identifier
SameIdentifier(m1, m2) ==
    /\ ResolvedFields(m1).from_id # <<>>
    /\ ResolvedFields(m1).from_id = ResolvedFields(m2).from_id

\* the same fields but for the letter case of the username
SameButUsernameCase(m1, m2) ==
    LET r1 == ResolvedFields(m1)
        r2 == ResolvedFields(m2)
    IN  /\ r1.from_id = r2.from_id
        /\ r1.first_name = r2.first_name
        /\ r1.last_name = r2.last_name
        /\ Lower(r1.username) = Lower(r2.username)

\* the key by the priority id > username > name
PriorityKey(r) ==
    IF r.from_id # <<>> THEN <<105, 100, 58>> \o r.from_id
    ELSE IF r.username # <<>> THEN <<117, 58>> \o Lower(r.username)
    ELSE <<110, 58>> \o Lower(r.first_name) \o <<124>> \o Lower(r.last_name)

\* C6: the key follows the priority id > username > name; two recorded messages
\* with the same non-empty identifier, or the same but for the letter case of
\* the username, have one key, and the participant map of the extractor holds
\* one record for them; no key is held twice.
C6_OneRecordPerIdentity ==
    (result.done /\ input.isdict /\ input.haslist) =>
        LET ps == result.value.participants
            recorded == {i \in 1..Len(input.messages) : Recorded(input.messages[i])}
        IN  /\ \A i, j \in 1..Len(ps) : ps[i][1] = ps[j][1] => i = j
            /\ \A i \in recorded :
                   /\ KeyOfMessage(input.messages[i]) = PriorityKey(ResolvedFields(input.messages[i]))
                   /\ DictHas(ps, KeyOfMessage(input.messages[i]))
            /\ \A i, j \in recorded :
                   LET m1 == input.messages[i]
                       m2 == input.messages[j]
                   IN  (SameIdentifier(m1, m2) \/ SameButUsernameCase(m1, m2)) =>
                           /\ KeyOfMessage(m1) = KeyOfMessage(m2)
                           /\ Cardinality({k \in 1..Len(ps) :
                                  ps[k][1] \in {KeyOfMessage(m1), KeyOfMessage(m2)}}) = 1

\* two recorded messages with one identifier and different names and usernames,
\* in one record
C6_Witness ==
    /\ result.done /\ input.isdict /\ input.haslist
    /\ Len(input.messages) = 2
    /\ Recorded(input.messages[1]) /\ Recorded(input.messages[2])
    /\ SameIdentifier(input.messages[1], input.messages[2])
    /\ ResolvedFields(input.messages[1]).username # ResolvedFields(input.messages[2]).username
    /\ ResolvedFields(input.messages[1]).first_name # ResolvedFields(input.messages[2]).first_name
    /\ Len(result.value.participants) = 1

----------------------------------------------------------------------------
(* The rendering of done, lines 283-343, and build_excel_bytes, 161-180 *)

\* a < b for two strings, by code points, as Python orders str
StrLess(a, b) ==
    LET differ == {i \in 1..Min(Len(a), Len(b)) : a[i] # b[i]}
    IN  IF differ = {} THEN Len(a) < Len(b)
        ELSE LET i == CHOOSE d \in differ : \A e \in differ : d <= e
             IN  a[i] < b[i]

\* lines 299-303: the sort key of a row
SortKey(r) == <<Lower(r.username), Lower(r.first_name), Lower(r.last_name)>>

\* k1 < k2 for two sort keys, as Python orders tuples
KeyLess(k1, k2) ==
    \/ StrLess(k1[1], k2[1])
    \/ k1[1] = k2[1] /\ StrLess(k1[2], k2[2])
    \/ k1[1] = k2[1] /\ k1[2] = k2[2] /\ StrLess(k1[3], k2[3])

\* The sort is stable, so the place of a row is one more than the number of
\* rows of a smaller key, or of the same key and before it.
Places(keys) ==
    AsSeq([i \in 1..Len(keys) |->
              1 + Cardinality({j \in 1..Len(keys) :
                      \/ KeyLess(keys[j], keys[i])
                      \/ keys[j] = keys[i] /\ j < i})])

\* the rows, each at its place
Arrange(rows, place) ==
    AsSeq([p \in 1..Len(rows) |-> rows[CHOOSE i \in 1..Len(rows) : place[i] = p]])

\* lines 299-303: rows.sort(key=...)
SortRows(rows) ==
    Arrange(rows, Places(AsSeq([i \in 1..Len(rows) |-> SortKey(rows[i])])))

RECURSIVE IntToStr(_)
\* str(n) of a natural number
IntToStr(n) ==
    IF n < 10 THEN <<48 + n>> ELSE IntToStr(n \div 10) \o <<48 + (n % 10)>>

\* the fixed lines of the inline list: "Spisok uchastnikov (username):",
\* the dash line of line 323, the header of line 326 with its leading \n,
\* and "(bez imeni)"
STR_HDR_USERNAMES ==
    <<1057, 1087, 1080, 1089, 1086, 1082, 32, 1091, 1095, 1072, 1089, 1090, 1085, 1080,
      1082, 1086, 1074, 32, 40, 117, 115, 101, 114, 110, 97, 109, 101, 41, 58>>
STR_NO_USERNAMES ==
    <<8212, 32, 40, 1074, 32, 1101, 1082, 1089, 1087, 1086, 1088, 1090, 1077, 32, 1085,
      1077, 32, 1085, 1072, 1081, 1076, 1077, 1085, 1086, 32, 1085, 1080, 32, 1086, 1076,
      1085, 1086, 1075, 1086, 32, 117, 115, 101, 114, 110, 97, 109, 101, 41>>
STR_HDR_NO_USERNAME ==
    <<10, 1059, 1095, 1072, 1089, 1090, 1085, 1080, 1082, 1080, 32, 1073, 1077, 1079, 32,
      117, 115, 101, 114, 110, 97, 109, 101, 32, 40, 1087, 1086, 32, 1080, 1084, 1077,
      1085, 1080, 32, 1080, 1079, 32, 1101, 1082, 1089, 1087, 1086, 1088, 1090, 1072, 41, 58>>
STR_NO_NAME == <<40, 1073, 1077, 1079, 32, 1080, 1084, 1077, 1085, 1080, 41>>

\* line 316: the name of a row without username
DisplayName(r) ==
    Or(Join(<<32>>, SelectSeq(<<_safe_str(r.first_name), _safe_str(r.last_name)>>,
                              LAMBDA p : p # <<>>)),
       STR_NO_NAME)

\* lines 309-312: the rows that go to with_username, and to no_username
HasUsername(r) == _safe_str(r.username) # <<>>
WithUsername(rows) == SelectSeq(rows, HasUsername)
NoUsername(rows) == SelectSeq(rows, LAMBDA r : ~HasUsername(r))

\* line 321: the numbered lines of the rows with a username
Numbered(with) ==
    AsSeq([i \in 1..Len(with) |->
              IntToStr(i) \o <<46, 32>> \o <<64>> \o _safe_str(with[i].username)])

\* line 327: the lines of the rows without
Named(without) ==
    AsSeq([i \in 1..Len(without) |-> <<45, 32>> \o DisplayName(without[i])])

\* lines 318-329: out_text of the two lists
OutText(with, without) ==
    Join(<<10>>,
         <<STR_HDR_USERNAMES>>
         \o (IF with # <<>> THEN Numbered(with) ELSE <<STR_NO_USERNAMES>>)
         \o (IF without # <<>> THEN <<STR_HDR_NO_USERNAME>> \o Named(without) ELSE <<>>))

\* lines 306-329: out_text of the sorted rows
InlineText(rows) == OutText(WithUsername(rows), NoUsername(rows))

\* "export_date", "username", "first_name", "last_name", "bio"
XLSX_HEADERS ==
    << <<101, 120, 112, 111, 114, 116, 95, 100, 97, 116, 101>>,
       <<117, 115, 101, 114, 110, 97, 109, 101>>,
       <<102, 105, 114, 115, 116, 95, 110, 97, 109, 101>>,
       <<108, 97, 115, 116, 95, 110, 97, 109, 101>>,
       <<98, 105, 111>> >>

\* the sheet of the workbook: the header row, then a row for each of rows
build_excel_bytes(rows) ==
    <<XLSX_HEADERS>>
    \o AsSeq([i \in 1..Len(rows) |->
                 <<rows[i].export_date, rows[i].username, rows[i].first_name,
                   rows[i].last_name, rows[i].bio>>])

----------------------------------------------------------------------------
(* The uploads.  The bytes of a file are named; json_loads and Soup give   *)
(* what json.loads and BeautifulSoup make of them.                         *)

\* "A.JSON", "b.html", "list.json", "bad.json", "notes.txt", "big.json", "more.json"
FN_A_JSON == <<65, 46, 74, 83, 79, 78>>
FN_B_HTML == <<98, 46, 104, 116, 109, 108>>
FN_LIST_JSON == <<108, 105, 115, 116, 46, 106, 115, 111, 110>>
FN_BAD_JSON == <<98, 97, 100, 46, 106, 115, 111, 110>>
FN_NOTES_TXT == <<110, 111, 116, 101, 115, 46, 116, 120, 116>>
FN_BIG_JSON == <<98, 105, 103, 46, 106, 115, 111, 110>>
FN_MORE_JSON == <<109, 111, 114, 101, 46, 106, 115, 111, 110>>
\* ".json", ".html", "upload"
STR_DOT_JSON == <<46, 106, 115, 111, 110>>
STR_DOT_HTML == <<46, 104, 116, 109, 108>>
STR_UPLOAD == <<117, 112, 108, 111, 97, 100>>
\* "Alice SMITH", "Carol"
S_ALICE_SMITH_UPPER == <<65, 108, 105, 99, 101, 32, 83, 77, 73, 84, 72>>
S_CAROL == <<67, 97, 114, 111, 108>>

\* export A: Alice Smith by name, user1 as Bob, a deleted account that mentions
DocA ==
    Doc(S_DATE,
        << Msg(S_ALICE_SMITH, None, None, None, TextNone),
           Msg(S_DAN, S_USER1, S_BOB, None, TextStr(S_CC_CAROL)),
           Msg(S_DELETED_ACCOUNT, None, None, None, TextStr(S_HELLO_BOBBY)) >>)

\* export B, as HTML: Alice SMITH (the key of Alice Smith), a deleted account, Carol
SoupB ==
    [from_names |-> <<S_ALICE_SMITH_UPPER, S_DELETED_ACCOUNT, S_CAROL, S_ALICE_SMITH_UPPER>>,
     texts |-> <<S_HELLO_BOBBY, S_LONG_MENTION>>]

\* the number of authors of the big export, one less than the threshold
BigAuthors == LIST_THRESHOLD - 1

\* export BIG: the authors "p1" .. "p49", by identifier "1" .. "49"
DocBig ==
    Doc(S_DATE,
        AsSeq([i \in 1..BigAuthors |->
                  Msg(<<112>> \o IntToStr(i), IntToStr(i), None, None, TextNone)]))

\* export MORE: the author "1" again under another name, and the author "50"
DocMore ==
    Doc(None,
        << Msg(S_CAROL, IntToStr(1), None, None, TextNone),
           Msg(S_DAN, IntToStr(BigAuthors + 1), S_BOB, None, TextNone) >>)

\* json.loads(raw.decode("utf-8", errors="replace")): ok is FALSE when it raises
json_loads(raw) ==
    CASE raw = "A" -> [ok |-> TRUE, data |-> DocA]
      [] raw = "BIG" -> [ok |-> TRUE, data |-> DocBig]
      [] raw = "MORE" -> [ok |-> TRUE, data |-> DocMore]
      [] raw = "LIST" -> [ok |-> TRUE, data |-> NonDictDoc]
      [] OTHER -> [ok |-> FALSE, data |-> NonDictDoc]

\* the elements BeautifulSoup(text, "lxml") has for ".from_name" and ".text"
Soup(raw) ==
    IF raw = "B" THEN SoupB ELSE [from_names |-> <<>>, texts |-> <<>>]

\* an upload: the Document of the message, and whether its download succeeds
Upload(file_name, raw, download_ok) ==
    [has_doc |-> TRUE, file_name |-> file_name, file_id |-> raw, download_ok |-> download_ok]

NoDocument == [has_doc |-> FALSE, file_name |-> None, file_id |-> "A", download_ok |-> TRUE]

\* the uploads of the session specification
Uploads ==
    { Upload(FN_A_JSON, "A", TRUE),
      Upload(FN_B_HTML, "B", TRUE),
      Upload(FN_A_JSON, "A", FALSE),
      Upload(FN_B_HTML, "B", FALSE),
      Upload(FN_BAD_JSON, "GARBAGE", TRUE),
      Upload(FN_BAD_JSON, "B", TRUE),
      Upload(FN_NOTES_TXT, "A", TRUE),
      Upload(None, "A", TRUE),
      NoDocument }

\* the uploads of the merge specification
MergeUploads ==
    { Upload(FN_A_JSON, "A", TRUE),
      Upload(FN_B_HTML, "B", TRUE),
      Upload(FN_LIST_JSON, "LIST", TRUE),
      Upload(FN_BIG_JSON, "BIG", TRUE),
      Upload(FN_MORE_JSON, "MORE", TRUE),
      Upload(FN_B_HTML, "B", FALSE),
      Upload(FN_BAD_JSON, "GARBAGE", TRUE),
      Upload(FN_NOTES_TXT, "A", TRUE),
      NoDocument }

\* the files a buffer may hold
BufferFiles ==
    {[name |-> Lower(u.file_name), bytes |-> u.file_id] :
        u \in {v \in Uploads \cup MergeUploads : v.has_doc /\ v.file_name # None}}

----------------------------------------------------------------------------
(* The session: context.user_data, a dict with at most the key "files" *)

\* context.user_data.get("files", [])
Files == IF DictHas(user_data, "files") THEN DictGet(user_data, "files") ELSE <<>>

\* lines 270-271: json.loads raises, or extract_from_json runs on what it gives
ExtractParsed(parsed) ==
    IF parsed.ok THEN extract_from_json(parsed.data)
    ELSE [raised |-> TRUE, export_date |-> <<>>, participants |-> <<>>, mentions |-> {}]

\* lines 266-273: the try block of done for one file, to the extractor's return
ProcessFile(f) ==
    IF EndsWith(f.name, STR_DOT_JSON)
    THEN ExtractParsed(json_loads(f.bytes))
    ELSE extract_from_html(Soup(f.bytes))

\* ProcessFile of each file a buffer may hold
FileResults == [f \in BufferFiles |-> ProcessFile(f)]

\* Count with the except branch counting the file as processed
CountFailedAsProcessed(acc, r) ==
    [acc EXCEPT !.all_participants = DictUpdate(@, r.participants),
                !.all_mentions = @ \cup r.mentions,
                !.processed = @ + 1]

\* lines 275-279: the locals of done after a file whose try block gave r
Count(acc, r) ==
    IF r.raised
    THEN [acc EXCEPT !.failed = @ + 1]
    ELSE [acc EXCEPT !.all_participants = DictUpdate(@, r.participants),
                     !.all_mentions = @ \cup r.mentions,
                     !.processed = @ + 1]

RECURSIVE DoneLoop(_, _)
\* lines 265-279: for f in files, with the locals of done in acc
DoneLoop(files, acc) ==
    IF files = <<>> THEN acc
    ELSE DoneLoop(Tail(files), Count(acc, FileResults[Head(files)]))

\* lines 259-279
Aggregate(files) ==
    DoneLoop(files, [all_participants |-> <<>>, all_mentions |-> {},
                     processed |-> 0, failed |-> 0])

\* what a handler sends, and the locals of done at its return
NoOut ==
    [handler |-> "none", reply |-> "none", count |-> 0,
     processed |-> 0, failed |-> 0, total |-> 0,
     all_participants |-> <<>>, all_mentions |-> {}, rows |-> <<>>,
     chunks |-> <<>>, sheet |-> <<>>]

Init ==
    /\ user_data = <<>>
    /\ accepted = <<>>
    /\ stale = {}
    /\ out = NoOut
    /\ input = NonDictDoc
    /\ result = NoResult

\* ClearFiles without the assignment
ClearFilesKeep(ud) == ud

\* lines 197, 209 and 281: context.user_data["files"] = []
ClearFiles(ud) == DictSet(ud, "files", <<>>)

\* the history after the buffer has been cleared
Cleared ==
    /\ accepted' = <<>>
    /\ stale' = stale \cup {accepted[i] : i \in 1..Len(accepted)}

\* lines 196-205
Start ==
    /\ user_data' = ClearFiles(user_data)
    /\ out' = [NoOut EXCEPT !.handler = "start", !.reply = "welcome"]
    /\ Cleared
    /\ UNCHANGED <<input, result>>

\* lines 208-210
Reset ==
    /\ user_data' = ClearFiles(user_data)
    /\ out' = [NoOut EXCEPT !.handler = "reset", !.reply = "reset"]
    /\ Cleared
    /\ UNCHANGED <<input, result>>

\* AtLimit with > for >=
AtLimitOff(files) == Len(files) > MAX_FILES

\* line 220: the buffer is full
AtLimit(files) == Len(files) >= MAX_FILES

\* line 225: the name has one of the two suffixes
GoodSuffix(filename) == EndsWith(filename, STR_DOT_JSON) \/ EndsWith(filename, STR_DOT_HTML)

\* lines 231-238: the try block raises before files.append, when the download
\* fails or the bytes of a .json file are no JSON
Raises(doc, filename) ==
    \/ ~doc.download_ok
    \/ EndsWith(filename, STR_DOT_JSON) /\ ~json_loads(doc.file_id).ok

\* AddFile with insert(0, ...) for append
AddFileFirst(files, file) == <<file>> \o files

\* line 240: files.append({"name": filename, "bytes": raw})
AddFile(files, file) == Append(files, file)

\* line 224: (doc.file_name or "upload").lower()
FileName(doc) == Lower(Or(doc.file_name, STR_UPLOAD))

\* the reply of handle_document, by the return it takes
Reply(doc, files, filename) ==
    IF ~doc.has_doc THEN "none"
    ELSE IF AtLimit(files) THEN "limit"
    ELSE IF ~GoodSuffix(filename) THEN "bad_suffix"
    ELSE IF Raises(doc, filename) THEN "failed"
    ELSE "accepted"

\* lines 240-243 when the file is accepted, the reply alone otherwise
Answer(files, file, reply) ==
    /\ IF reply = "accepted"
       THEN /\ user_data' = DictSet(user_data, "files", AddFile(files, file))
            /\ accepted' = Append(accepted, file)
            /\ out' = [NoOut EXCEPT !.handler = "document", !.reply = reply,
                                    !.count = Len(AddFile(files, file))]
       ELSE /\ out' = [NoOut EXCEPT !.handler = "document", !.reply = reply]
            /\ UNCHANGED <<user_data, accepted>>
    /\ UNCHANGED <<stale, input, result>>

\* lines 213-246
handle_document(doc) ==
    Answer(Files, [name |-> FileName(doc), bytes |-> doc.file_id],
           Reply(doc, Files, FileName(doc)))

\* IsInline with <= for <
IsInlineUpTo(total) == total <= LIST_THRESHOLD

\* line 305: the list is short enough to be sent as text
IsInline(total) == total < LIST_THRESHOLD

\* lines 259-283 and 298-303: the locals of done after the loop
Summary(acc) ==
    [NoOut EXCEPT !.handler = "done", !.processed = acc.processed,
                  !.failed = acc.failed, !.total = Len(acc.all_participants),
                  !.all_participants = acc.all_participants,
                  !.all_mentions = acc.all_mentions,
                  !.rows = SortRows(DictValues(acc.all_participants))]

\* lines 285-343: what done sends
Report(summary) ==
    IF summary.total = 0
    THEN [summary EXCEPT !.reply = "zero"]
    ELSE IF IsInline(summary.total)
    THEN [summary EXCEPT !.reply = "inline",
                         !.chunks = chunk_text(InlineText(summary.rows), TELEGRAM_MSG_LIMIT)]
    ELSE [summary EXCEPT !.reply = "xlsx", !.sheet = build_excel_bytes(summary.rows)]

\* lines 249-343
done ==
    /\ IF Files = <<>>
       THEN /\ out' = [NoOut EXCEPT !.handler = "done", !.reply = "no_files"]
            /\ UNCHANGED <<user_data, accepted, stale>>
       ELSE /\ user_data' = ClearFiles(user_data)
            /\ Cleared
            /\ out' = Report(Summary(Aggregate(Files)))
    /\ UNCHANGED <<input, result>>

\* the updates of the session: /start, /reset, /done, and a document
HandleDocument == \E doc \in Uploads : handle_document(doc)

Next == Start \/ Reset \/ HandleDocument \/ done

Spec == Init /\ [][Next]_vars

\* the bound on the files of one buffer in the merge specification
MaxUploads == 2

MergeDocument ==
    /\ Len(Files) < MaxUploads
    /\ \E doc \in MergeUploads : handle_document(doc)

NextMerge == Start \/ Reset \/ MergeDocument \/ done

SpecMerge == Init /\ [][NextMerge]_vars

----------------------------------------------------------------------------
(* The claims about the session *)

\* the files of the uploads A.JSON, b.html, list.json, big.json and more.json
FileA == [name |-> Lower(FN_A_JSON), bytes |-> "A"]
FileB == [name |-> Lower(FN_B_HTML), bytes |-> "B"]
FileList == [name |-> Lower(FN_LIST_JSON), bytes |-> "LIST"]
FileBig == [name |-> Lower(FN_BIG_JSON), bytes |-> "BIG"]
FileMore == [name |-> Lower(FN_MORE_JSON), bytes |-> "MORE"]

\* the step is one of handle_document on a message with a document; of done on a
\* buffer with files
IsAddFile == out'.handler = "document" /\ out'.reply # "none"
IsFinish == out'.handler = "done" /\ Files # <<>>

\* the places in files of the files whose processing does not raise
GoodPlaces(files) == {i \in 1..Len(files) : ~FileResults[files[i]].raised}

\* the keys of the participants of the file at place i
KeysAt(files, i) == DictKeys(FileResults[files[i]].participants)

\* C1: the buffer never holds more than 10 files, and a document that arrives
\* when it holds 10 is rejected: the reply is that of the limit and the buffer
\* stays as it is.
C1_BufferAtMostTen ==
    /\ [](Len(Files) <= 10)
    /\ [][(IsAddFile /\ Len(Files) >= 10) =>
              (out'.reply = "limit" /\ Files' = Files)]_vars

\* the buffer holds 10 files and a document has just been rejected for the limit
C1_Witness ==
    /\ Len(Files) = 10
    /\ out.handler = "document" /\ out.reply = "limit"

C3_FailedFilesExcluded ==
    [][IsFinish =>
           LET Good(f) == ~FileResults[f].raised
           IN  /\ out'.failed = Len(Files) - Cardinality(GoodPlaces(Files))
               /\ out'.processed = Cardinality(GoodPlaces(Files))
               /\ out'.processed + out'.failed = Len(Files)
               /\ out'.all_participants = Aggregate(SelectSeq(Files, Good)).all_participants
               /\ out'.all_mentions = Aggregate(SelectSeq(Files, Good)).all_mentions]_vars

\* a report of one failed and one processed file with participants, after
\* list.json, whose processing raises, was in a cleared buffer
C3_Witness ==
    /\ out.handler = "done" /\ out.failed = 1 /\ out.processed = 1
    /\ out.total > 0
    /\ FileList \in stale

\* C4: the aggregate of /done has the keys of the participants of the files that
\* were processed, each with the record of the last file of the buffer, in
\* upload order, that has the key; its mentions are the union of the mentions of
\* these files.
C4_LastUploadWins ==
    [][IsFinish =>
           LET good == GoodPlaces(Files)
               LastWith(k) == CHOOSE i \in good :
                                  /\ k \in KeysAt(Files, i)
                                  /\ \A j \in good : k \in KeysAt(Files, j) => j <= i
           IN  /\ DictKeys(out'.all_participants) = UNION {KeysAt(Files, i) : i \in good}
               /\ \A k \in DictKeys(out'.all_participants) :
                      DictGet(out'.all_participants, k) =
                          DictGet(FileResults[Files[LastWith(k)]].participants, k)
               /\ out'.all_mentions = UNION {FileResults[Files[i]].mentions : i \in good}]_vars

\* a report on big.json and more.json, 50 participants, in which the author
\* "id:1" of both has the name of export MORE, uploaded last
C4_Witness ==
    /\ out.handler = "done" /\ out.processed = 2
    /\ out.total = 50
    /\ DictHas(out.all_participants, <<105, 100, 58>> \o IntToStr(1))
    /\ DictGet(out.all_participants, <<105, 100, 58>> \o IntToStr(1)).first_name = S_CAROL
    /\ DictGet(FileResults[FileBig].participants, <<105, 100, 58>> \o IntToStr(1)).first_name
           # S_CAROL

\* the rows of the sheet, after its header row, that hold the fields of record p
RowsOf(sheet, p) ==
    {j \in 2..Len(sheet) :
        sheet[j] = <<p.export_date, p.username, p.first_name, p.last_name, p.bio>>}

\* the participants of the dict d that have the fields of record p
HoldersOf(d, p) == {i \in 1..Len(d) : d[i][2] = p}

\* C9: /done renders by the number of participants of the aggregate: 1 to 49
\* give the inline text and no sheet, 50 and more give the sheet, with a row for
\* each participant, and no text, 0 gives the zero report and neither.
C9_RenderingByCount ==
    (out.handler = "done" /\ out.reply # "no_files") =>
        /\ out.total = Len(out.all_participants)
        /\ out.total = 0 =>
               out.reply = "zero" /\ out.chunks = <<>> /\ out.sheet = <<>>
        /\ (out.total >= 1 /\ out.total <= 49) =>
               out.reply = "inline" /\ out.chunks # <<>> /\ out.sheet = <<>>
        /\ out.total >= 50 =>
               /\ out.reply = "xlsx" /\ out.chunks = <<>>
               /\ Len(out.sheet) = out.total + 1
               /\ \A i \in 1..Len(out.all_participants) :
                      Cardinality(RowsOf(out.sheet, out.all_participants[i][2])) =
                          Cardinality(HoldersOf(out.all_participants,
                                                out.all_participants[i][2]))

\* a report of exactly 50 participants, as a sheet
C9_Witness ==
    /\ out.handler = "done" /\ out.total = 50
    /\ out.reply = "xlsx"
    /\ Len(out.sheet) = 51

\* the reasons for which handle_document rejects the document doc
Rejects(doc) ==
    \/ Len(Files) >= 10
    \/ ~(EndsWith(FileName(doc), STR_DOT_JSON) \/ EndsWith(FileName(doc), STR_DOT_HTML))
    \/ ~doc.download_ok
    \/ EndsWith(FileName(doc), STR_DOT_JSON) /\ ~json_loads(doc.file_id).ok

\* C10: a document that is rejected (the buffer holds 10, the suffix is neither
\* .json nor .html, the download fails, the bytes of a .json file are no JSON)
\* leaves the buffer as it is; a document that is accepted makes the buffer one
\* file longer, the file last and the files before it as they were; every
\* .json file of the buffer holds bytes that parse as JSON.
C10_AddFileFrame ==
    /\ [](\A i \in 1..Len(Files) :
              EndsWith(Files[i].name, STR_DOT_JSON) => json_loads(Files[i].bytes).ok)
    /\ [][\A doc \in Uploads :
              (doc.has_doc /\ handle_document(doc)) =>
                  IF Rejects(doc)
                  THEN Files' = Files /\ out'.reply # "accepted"
                  ELSE /\ out'.reply = "accepted"
                       /\ Len(Files') = Len(Files) + 1
                       /\ SubSeq(Files', 1, Len(Files)) = Files
                       /\ Files'[Len(Files')] =
                              [name |-> FileName(doc), bytes |-> doc.file_id]]_vars

\* a buffer of export A and then b.html, on which a document has just been
\* rejected because it could not be read
C10_Witness ==
    /\ Files = <<FileA, FileB>>
    /\ out.handler = "document" /\ out.reply = "failed"

====
